---- MODULE Spec2Model ----
(***************************************************************************)
(* DNSProbe (scanner.py): main() starts one thread per configured record   *)
(* type, every thread runs perform_dns_lookup() and puts one row per       *)
(* returned record on a shared queue.Queue, main() joins all threads,      *)
(* drains the queue into results_list, renders a table and logs the end    *)
(* of the scan.                                                            *)
(***************************************************************************)
EXTENDS Integers, Sequences, FiniteSets, TLC

\* ------------------------------------------------------------------ bounds
MaxTypes == 2       \* longest configured record_types list
MaxRecords == 2     \* most records in one resolver answer

\* ------------------------------------------------------- inputs of the run
RecordTypeNames == {"A", "MX"}
Domains == {"example.com", "nonexistent.invalid"}
\* end_time - start_time, in units of 0.00001 s
QueryTimes == {4, 1237}

RECURSIVE SeqsUpTo(_, _)
SeqsUpTo(S, n) ==
    IF n = 0 THEN {<<>>}
    ELSE LET shorter == SeqsUpTo(S, n - 1)
         IN  shorter \cup {Append(s, x) : s \in {q \in shorter : Len(q) = n - 1}, x \in S}

\* config.get('record_types', DEFAULT_RECORD_TYPES): any list, repeats allowed
ConfiguredLists == SeqsUpTo(RecordTypeNames, MaxTypes)

\* What resolver.resolve() can return: an answer of n records of which the
\* one at position bad (0: none) has a text form that cannot be produced.
Answer(n, bad) == [p \in 1..n |-> [id |-> p, printable |-> (p # bad)]]
Answers == {Answer(n, bad) : n \in 0..MaxRecords, bad \in 0..MaxRecords}

\* What resolver.resolve() can raise.
Exceptions == {"NoAnswer", "NXDOMAIN", "Exception"}

VARIABLES
    domain,         \* args.domain
    record_types,   \* record_types (config)
    pc,             \* position of main()
    threads,        \* threads: the args of every Thread created so far
    joined,         \* number of threads main() has joined
    tpc,            \* position of every thread
    answers,        \* answers of every thread
    query_time,     \* query_time of every thread
    idx,            \* number of records of answers already put by the thread
    outcome,        \* how each lookup ended ("None" while it runs)
    queries,        \* number of resolver.resolve() calls made by each thread
    results,        \* the items of the queue.Queue
    mutex,          \* the thread holding the queue's mutex, 0 if free
    results_list,   \* results_list
    tables,         \* what print(tabulate(...)) has printed
    log             \* the records handed to the logger, in order

vars == <<domain, record_types, pc, threads, joined, tpc, answers, query_time,
          idx, outcome, queries, results, mutex, results_list, tables, log>>

Tasks == 1..Len(record_types)

\* ------------------------------------------------------------ pure helpers
\* str(rdata): defined only for a printable record
Str(rdata) == <<"text", rdata.id>>

\* f"{query_time:.4f}" for a time given in units of 0.00001 s: the seconds and
\* the four decimals, rounded to the nearest 0.0001
Format4f(q) == LET r == (q + 5) \div 10 IN <<r \div 10000, r % 10000>>

\* a row whose time is taken again when the row is built
RowTimedAtPut(t, rdata) ==
    [Host |-> threads[t].target_domain,
     RecordType |-> threads[t].record_type,
     Result |-> Str(rdata),
     TimeTaken |-> Format4f(query_time[t] + 100 * rdata.id),
     task |-> t]

\* the dict put on the queue (task is a history field: the thread that put it)
Row(t, rdata) ==
    [Host |-> threads[t].target_domain,
     RecordType |-> threads[t].record_type,
     Result |-> Str(rdata),
     TimeTaken |-> Format4f(query_time[t]),
     task |-> t]

\* a put at the head of the queue
PutAtHead(q, item) == <<item>> \o q

\* a put that overwrites what the queue holds
PutKeepsLast(q, item) == <<item>>

\* queue.Queue.put appends at the tail, get removes at the head
Put(q, item) == Append(q, item)

\* a queue without its lock
MutexNeverHeld == TRUE

\* the lock inside queue.Queue
MutexFree == mutex = 0

\* every except clause logging at error level
HandlerAlwaysError(exc) == "ERROR"

\* the except clause that handles an exception, as the level it logs at
HandlerLevel(exc) ==
    CASE exc = "NoAnswer" -> "WARNING"
      [] exc = "NXDOMAIN" -> "ERROR"
      [] OTHER -> "ERROR"

OutcomeOf(exc) ==
    CASE exc = "NoAnswer" -> "NoData"
      [] exc = "NXDOMAIN" -> "DomainNotFound"
      [] OTHER -> "OtherError"

\* an except clause that tries the lookup again
AfterExceptRetry == "resolve"

\* the position of a thread after an except clause has run
AfterExcept == "done"

LogRecord(level, src, msg) == [level |-> level, src |-> src, msg |-> msg]

\* a colorize_result that puts the record type in the Host column
colorize_swapped(result) ==
    [Host |-> <<"YELLOW", result.RecordType, "RESET_ALL">>,
     RecordType |-> <<"CYAN", result.RecordType, "RESET_ALL">>,
     Result |-> <<"GREEN", result.Result, "RESET_ALL">>,
     TimeTaken |-> <<"MAGENTA", result.TimeTaken, "RESET_ALL">>]

\* colorize_result
colorize_result(result) ==
    [Host |-> <<"YELLOW", result.Host, "RESET_ALL">>,
     RecordType |-> <<"CYAN", result.RecordType, "RESET_ALL">>,
     Result |-> <<"GREEN", result.Result, "RESET_ALL">>,
     TimeTaken |-> <<"MAGENTA", result.TimeTaken, "RESET_ALL">>]

\* ------------------------------------------------------------------- Init
Init ==
    /\ domain \in Domains
    /\ record_types \in ConfiguredLists
    /\ pc = "start"
    /\ threads = <<>>
    /\ joined = 0
    /\ tpc = [t \in Tasks |-> "new"]
    /\ answers = [t \in Tasks |-> <<>>]
    /\ query_time = [t \in Tasks |-> 0]
    /\ idx = [t \in Tasks |-> 0]
    /\ outcome = [t \in Tasks |-> "None"]
    /\ queries = [t \in Tasks |-> 0]
    /\ results = <<>>
    /\ mutex = 0
    /\ results_list = <<>>
    /\ tables = <<>>
    /\ log = <<>>

\* ------------------------------------------------------------ main thread
\* logger.info("Starting DNS scan ..."), resolver set-up, results, threads
LogStart ==
    /\ pc = "start"
    /\ log' = Append(log, LogRecord("INFO", 0, <<"Starting DNS scan", domain>>))
    /\ pc' = "dispatch"
    /\ UNCHANGED <<domain, record_types, threads, joined, tpc, answers, query_time,
                   idx, outcome, queries, results, mutex, results_list, tables>>

\* a loop that stops one element early
HasNextTypeButLast == Len(threads) < Len(record_types) - 1

\* the for loop over record_types has another element
HasNextType == Len(threads) < Len(record_types)

\* a dispatch that joins each thread before it starts the next one
StartThreadAfterJoin ==
    /\ pc = "dispatch"
    /\ HasNextType
    /\ \A u \in 1..Len(threads) : tpc[u] = "done"
    /\ LET t == Len(threads) + 1
       IN  /\ threads' = Append(threads, [target_domain |-> domain,
                                          record_type |-> record_types[t]])
           /\ tpc' = [tpc EXCEPT ![t] = "resolve"]
    /\ UNCHANGED <<domain, record_types, pc, joined, answers, query_time, idx,
                   outcome, queries, results, mutex, results_list, tables, log>>

\* for record_type in record_types: Thread(...); threads.append; thread.start()
StartThread ==
    /\ pc = "dispatch"
    /\ HasNextType
    /\ LET t == Len(threads) + 1
       IN  /\ threads' = Append(threads, [target_domain |-> domain,
                                          record_type |-> record_types[t]])
           /\ tpc' = [tpc EXCEPT ![t] = "resolve"]
    /\ UNCHANGED <<domain, record_types, pc, joined, answers, query_time, idx,
                   outcome, queries, results, mutex, results_list, tables, log>>

\* the dispatch loop ends
DispatchDone ==
    /\ pc = "dispatch"
    /\ ~HasNextType
    /\ pc' = "join"
    /\ UNCHANGED <<domain, record_types, threads, joined, tpc, answers, query_time,
                   idx, outcome, queries, results, mutex, results_list, tables, log>>

\* a join that does not wait
TerminatedOrNot(t) == TRUE

\* a join that returns only for a thread whose lookup succeeded
TerminatedWithSuccess(t) == tpc[t] = "done" /\ outcome[t] = "Success"

\* thread.join() returns once the thread has terminated
Terminated(t) == tpc[t] = "done"

\* for thread in threads: thread.join()
Join ==
    /\ pc = "join"
    /\ joined < Len(threads)
    /\ Terminated(joined + 1)
    /\ joined' = joined + 1
    /\ UNCHANGED <<domain, record_types, pc, threads, tpc, answers, query_time,
                   idx, outcome, queries, results, mutex, results_list, tables, log>>

\* the join loop ends; results_list = []
JoinDone ==
    /\ pc = "join"
    /\ joined = Len(threads)
    /\ results_list' = <<>>
    /\ pc' = "drain"
    /\ UNCHANGED <<domain, record_types, threads, joined, tpc, answers, query_time,
                   idx, outcome, queries, results, mutex, tables, log>>

\* while not results.empty()
DrainTest ==
    /\ pc = "drain"
    /\ MutexFree
    /\ pc' = IF results = <<>> THEN "render" ELSE "get"
    /\ UNCHANGED <<domain, record_types, threads, joined, tpc, answers, query_time,
                   idx, outcome, queries, results, mutex, results_list, tables, log>>

\* a get that takes the newest item of the queue
DrainGetNewest ==
    /\ pc = "get"
    /\ MutexFree
    /\ results # <<>>
    /\ results_list' = Append(results_list, results[Len(results)])
    /\ results' = SubSeq(results, 1, Len(results) - 1)
    /\ pc' = "drain"
    /\ UNCHANGED <<domain, record_types, threads, joined, tpc, answers, query_time,
                   idx, outcome, queries, mutex, tables, log>>

\* results_list.append(results.get()): get() blocks while the queue is empty
DrainGet ==
    /\ pc = "get"
    /\ MutexFree
    /\ results # <<>>
    /\ results_list' = Append(results_list, Head(results))
    /\ results' = Tail(results)
    /\ pc' = "drain"
    /\ UNCHANGED <<domain, record_types, threads, joined, tpc, answers, query_time,
                   idx, outcome, queries, mutex, tables, log>>

\* a table printed whatever the list holds
ShouldRenderAlways == TRUE

\* if results_list:
ShouldRender == results_list # <<>>

\* colorize every row and print the table
Render ==
    /\ pc = "render"
    /\ tables' = IF ShouldRender
                 THEN Append(tables, [r \in 1..Len(results_list) |->
                                         colorize_result(results_list[r])])
                 ELSE tables
    /\ pc' = "complete"
    /\ UNCHANGED <<domain, record_types, threads, joined, tpc, answers, query_time,
                   idx, outcome, queries, results, mutex, results_list, log>>

\* logger.info("DNS scan completed")
LogCompleted ==
    /\ pc = "complete"
    /\ log' = Append(log, LogRecord("INFO", 0, <<"DNS scan completed">>))
    /\ pc' = "done"
    /\ UNCHANGED <<domain, record_types, threads, joined, tpc, answers, query_time,
                   idx, outcome, queries, results, mutex, results_list, tables>>

\* ------------------------------------------------- perform_dns_lookup threads
\* an except clause that also stops every other running thread
ExceptAbortsAll(t, exc) ==
    /\ log' = Append(log, LogRecord(HandlerLevel(exc), t,
                                    <<exc, threads[t].record_type, threads[t].target_domain>>))
    /\ outcome' = [outcome EXCEPT ![t] = OutcomeOf(exc)]
    /\ tpc' = [u \in Tasks |-> IF tpc[u] = "new" THEN "new" ELSE "done"]

\* an except clause of perform_dns_lookup: log and return
Except(t, exc) ==
    /\ log' = Append(log, LogRecord(HandlerLevel(exc), t,
                                    <<exc, threads[t].record_type, threads[t].target_domain>>))
    /\ outcome' = [outcome EXCEPT ![t] = OutcomeOf(exc)]
    /\ tpc' = [tpc EXCEPT ![t] = AfterExcept]

\* answers = resolver.resolve(...) returns; query_time = end_time - start_time
ResolveReturns(t) ==
    /\ t \in Tasks
    /\ tpc[t] = "resolve"
    /\ \E a \in Answers, q \in QueryTimes :
          /\ answers' = [answers EXCEPT ![t] = a]
          /\ query_time' = [query_time EXCEPT ![t] = q]
    /\ queries' = [queries EXCEPT ![t] = @ + 1]
    /\ idx' = [idx EXCEPT ![t] = 0]
    /\ tpc' = [tpc EXCEPT ![t] = "iter"]
    /\ UNCHANGED <<domain, record_types, pc, threads, joined, outcome, results,
                   mutex, results_list, tables, log>>

\* resolver.resolve(...) raises
ResolveRaises(t) ==
    /\ t \in Tasks
    /\ tpc[t] = "resolve"
    /\ queries' = [queries EXCEPT ![t] = @ + 1]
    /\ \E exc \in Exceptions : Except(t, exc)
    /\ UNCHANGED <<domain, record_types, pc, threads, joined, answers, query_time,
                   idx, results, mutex, results_list, tables>>

\* for rdata in answers: the dict of the next record is built (str(rdata))
NextRdata(t) ==
    /\ t \in Tasks
    /\ tpc[t] = "iter"
    /\ idx[t] < Len(answers[t])
    /\ IF answers[t][idx[t] + 1].printable
       THEN /\ tpc' = [tpc EXCEPT ![t] = "put"]
            /\ UNCHANGED <<outcome, log>>
       ELSE Except(t, "Exception")
    /\ UNCHANGED <<domain, record_types, pc, threads, joined, answers, query_time,
                   idx, queries, results, mutex, results_list, tables>>

\* results.put(...): the queue's mutex is taken
PutAcquire(t) ==
    /\ t \in Tasks
    /\ tpc[t] = "put"
    /\ MutexFree
    /\ mutex' = t
    /\ tpc' = [tpc EXCEPT ![t] = "locked"]
    /\ UNCHANGED <<domain, record_types, pc, threads, joined, answers, query_time,
                   idx, outcome, queries, results, results_list, tables, log>>

\* results.put(...): the item is appended and the mutex released
PutRelease(t) ==
    /\ t \in Tasks
    /\ tpc[t] = "locked"
    /\ results' = Put(results, Row(t, answers[t][idx[t] + 1]))
    /\ mutex' = 0
    /\ idx' = [idx EXCEPT ![t] = @ + 1]
    /\ tpc' = [tpc EXCEPT ![t] = "iter"]
    /\ UNCHANGED <<domain, record_types, pc, threads, joined, answers, query_time,
                   outcome, queries, results_list, tables, log>>

\* the for loop ends: logger.info(f"{record_type} records for ...")
LogRecords(t) ==
    /\ t \in Tasks
    /\ tpc[t] = "iter"
    /\ idx[t] = Len(answers[t])
    /\ log' = Append(log, LogRecord("INFO", t,
                                    <<"records", threads[t].record_type,
                                      threads[t].target_domain, answers[t]>>))
    /\ outcome' = [outcome EXCEPT ![t] = "Success"]
    /\ tpc' = [tpc EXCEPT ![t] = "done"]
    /\ UNCHANGED <<domain, record_types, pc, threads, joined, answers, query_time,
                   idx, queries, results, mutex, results_list, tables>>

Thread(t) ==
    \/ ResolveReturns(t)
    \/ ResolveRaises(t)
    \/ NextRdata(t)
    \/ PutAcquire(t)
    \/ PutRelease(t)
    \/ LogRecords(t)

Main ==
    \/ LogStart
    \/ StartThread
    \/ DispatchDone
    \/ Join
    \/ JoinDone
    \/ DrainTest
    \/ DrainGet
    \/ Render
    \/ LogCompleted

\* thread t exists only for the positions t of the configured list
Next == Main \/ \E t \in 1..MaxTypes : Thread(t)

Spec == Init /\ [][Next]_vars

\* the scheduler runs every thread that can take a step; a resolver call
\* returns or raises
FairSpec ==
    /\ Spec
    /\ WF_vars(Main)
    /\ \A t \in 1..MaxTypes : WF_vars(Thread(t))

\* ----------------------------------------------------------- vocabulary
Started == 1..Len(threads)
Draining == pc \in {"drain", "get"}
\* the drain loop has ended: results_list is the final report
Finalized == pc \in {"render", "complete", "done"}
PastJoin == Draining \/ Finalized
PastDispatch == pc = "join" \/ PastJoin
Failures == {"NoData", "DomainNotFound", "OtherError"}

RowsOf(t) == SelectSeq(results_list, LAMBDA r : r.task = t)
\* the rows a lookup contributes when it succeeds
OwnRows(t) == [p \in 1..Len(answers[t]) |-> Row(t, answers[t][p])]

RECURSIVE SumLen(_)
SumLen(S) ==
    IF S = {} THEN 0
    ELSE LET t == CHOOSE u \in S : TRUE IN Len(answers[t]) + SumLen(S \ {t})

\* ---------------------------------------------------------------- C1
\* C1: main() neither reads the queue, fills results_list nor prints a table
\* before every thread it started has terminated; while a row is being put,
\* main() is still dispatching or joining.
Barrier ==
    /\ (PastJoin \/ results_list # <<>> \/ tables # <<>>)
          => \A t \in Started : tpc[t] = "done"
    /\ (\E t \in Tasks : tpc[t] \in {"put", "locked"}) => pc \in {"dispatch", "join"}

\* main() is draining rows that two threads have put
BarrierWitness ==
    /\ pc = "get"
    /\ Len(threads) = 2
    /\ \A t \in Started : tpc[t] = "done"
    /\ \E r \in 1..Len(results) : results[r].task = 1
    /\ \E r \in 1..Len(results) : results[r].task = 2

\* ---------------------------------------------------------------- C2
\* C2: at most one thread is inside the queue at any moment, and when each of
\* the N threads puts exactly one row the final report has exactly N rows.
NoLostUpdate ==
    /\ Cardinality({t \in Tasks : tpc[t] = "locked"}) <= 1
    /\ \A t \in Tasks : tpc[t] = "locked" => mutex = t
    /\ (Finalized /\ \A t \in Tasks : outcome[t] = "Success" /\ Len(answers[t]) = 1)
          => Len(results_list) = Len(threads)

\* two threads that each put one row have finished, and the report has two rows
NoLostUpdateWitness ==
    /\ pc = "done"
    /\ Len(threads) = 2
    /\ \A t \in Tasks : outcome[t] = "Success" /\ Len(answers[t]) = 1
    /\ Len(results_list) = 2

\* one thread waits for the queue while the other is inside it
ContentionWitness ==
    /\ Len(threads) = 2
    /\ tpc[1] = "put"
    /\ tpc[2] = "locked"

\* ---------------------------------------------------------------- C3
\* C3: every row of the final report was put by a lookup that ended in
\* Success.
ReportOnlySuccess ==
    Finalized => \A r \in 1..Len(results_list) : outcome[results_list[r].task] = "Success"

\* ---------------------------------------------------------------- C4
\* C4: when every lookup ends in Success, the final report has as many rows
\* as the resolver returned records, summed over the lookups.
RowCountAllSuccess ==
    (Finalized /\ \A t \in Tasks : outcome[t] = "Success")
        => Len(results_list) = SumLen(Tasks)

\* an answer of two records and an answer of one record gave three rows
RowCountWitness ==
    /\ pc = "done"
    /\ Len(threads) = 2
    /\ \A t \in Tasks : outcome[t] = "Success"
    /\ {Len(answers[1]), Len(answers[2])} = {1, 2}
    /\ Len(results_list) = 3

\* ---------------------------------------------------------------- C5
DistinctTypes == {record_types[p] : p \in DOMAIN record_types}
TasksFor(rt) == {t \in Started : threads[t].record_type = rt}
Completed == {t \in Started : tpc[t] = "done"}

\* C5 as stated: once dispatch is over, every distinct configured record type
\* has exactly one thread, and the final report is made with as many threads
\* completed as dispatched.
OneTaskPerDistinctType ==
    /\ PastDispatch => \A rt \in DistinctTypes : Cardinality(TasksFor(rt)) = 1
    /\ Finalized => Cardinality(Completed) = Len(threads)

\* C5: once dispatch is over there is exactly one thread per entry of the
\* configured list, in list order (a type listed twice has two threads), and
\* the final report is made with as many threads completed as dispatched.
OneTaskPerEntry ==
    /\ Len(threads) <= Len(record_types)
    /\ \A t \in Started : threads[t].record_type = record_types[t]
    /\ PastDispatch => Len(threads) = Len(record_types)
    /\ Finalized => Cardinality(Completed) = Len(threads)

\* a list naming one type twice was scanned with two threads, one of them failing
OneTaskPerEntryWitness ==
    /\ pc = "done"
    /\ Len(record_types) = 2
    /\ record_types[1] = record_types[2]
    /\ Len(threads) = 2
    /\ \E t \in Tasks : outcome[t] \in Failures

\* ---------------------------------------------------------------- C6
\* the step in which a lookup fails changes nothing of main(), of the queue
\* or of any other thread
FailureStepIsLocal ==
    \A t \in Tasks :
        (outcome[t] = "None" /\ outcome'[t] \in Failures)
            => /\ pc' = pc
               /\ results' = results
               /\ \A u \in Tasks \ {t} :
                     /\ tpc'[u] = tpc[u]
                     /\ outcome'[u] = outcome[u]
                     /\ answers'[u] = answers[u]
                     /\ idx'[u] = idx[u]

\* C6: a failing lookup leaves main() and every other thread as they were,
\* main() finishes whatever the outcomes are, and in the final report the rows
\* of every successful lookup are exactly the rows of its own answer.
FailureIsolation ==
    /\ [](Finalized => \A t \in Tasks :
              /\ tpc[t] = "done"
              /\ outcome[t] = "Success" => RowsOf(t) = OwnRows(t))
    /\ [][FailureStepIsLocal]_vars

\* a lookup failed while the other one succeeded with two rows in the report
FailureIsolationWitness ==
    /\ pc = "done"
    /\ Len(threads) = 2
    /\ \E t \in Tasks, u \in Tasks :
          /\ outcome[t] \in Failures
          /\ outcome[u] = "Success"
          /\ Len(RowsOf(u)) = 2

\* ---------------------------------------------------------------- C7
LastLogIsCompleted ==
    log # <<>> /\ log[Len(log)] = LogRecord("INFO", 0, <<"DNS scan completed">>)

\* C7: with every runnable thread scheduled and every resolver call ending,
\* main() reaches its end and the scan-completed event is the last one logged,
\* whatever the outcomes are; when every lookup ends in DomainNotFound the
\* report at that point is empty.
ScanCompletes ==
    /\ <>(pc = "done" /\ LastLogIsCompleted)
    /\ []((pc = "done" /\ \A t \in Tasks : outcome[t] = "DomainNotFound")
             => results_list = <<>> /\ tables = <<>>)

\* a scan of two record types that both ended in DomainNotFound is complete
ScanCompletesWitness ==
    /\ pc = "done"
    /\ LastLogIsCompleted
    /\ Len(threads) = 2
    /\ \A t \in Tasks : outcome[t] = "DomainNotFound"
    /\ results_list = <<>>

\* ---------------------------------------------------------------- C8
\* C8: for an empty record-type list no thread is ever created, and main()
\* ends with an empty report, no table printed and nothing logged but the
\* start and the completion of the scan.
EmptyListScan ==
    record_types = <<>> =>
        /\ threads = <<>>
        /\ results = <<>>
        /\ results_list = <<>>
        /\ tables = <<>>
        /\ \A e \in 1..Len(log) : log[e].level = "INFO" /\ log[e].src = 0

\* the scan of an empty list has reached its end
EmptyListWitness ==
    /\ record_types = <<>>
    /\ pc = "done"
    /\ LastLogIsCompleted

\* ---------------------------------------------------------------- C9
LogsOf(src) == SelectSeq(log, LAMBDA e : e.src = src)
LevelOf(o) ==
    CASE o = "Success" -> "INFO"
      [] o = "NoData" -> "WARNING"
      [] o = "DomainNotFound" -> "ERROR"
      [] o = "OtherError" -> "ERROR"
StartEvents == SelectSeq(log, LAMBDA e : e.src = 0 /\ e.msg[1] = "Starting DNS scan")
CompletedEvents == SelectSeq(log, LAMBDA e : e.src = 0 /\ e.msg[1] = "DNS scan completed")

OneEventPerLookup ==
    \A t \in Tasks :
        /\ tpc[t] = "done" <=> outcome[t] # "None"
        /\ outcome[t] = "None" => LogsOf(t) = <<>>
        /\ outcome[t] # "None" =>
              /\ Len(LogsOf(t)) = 1
              /\ LogsOf(t)[1].level = LevelOf(outcome[t])

ScanEvents ==
    /\ pc = "start" => log = <<>> /\ \A t \in Tasks : tpc[t] = "new"
    /\ pc # "start" => Len(StartEvents) = 1 /\ log[1] = StartEvents[1]
    /\ pc # "done" => CompletedEvents = <<>>
    /\ pc = "done" =>
          /\ Len(CompletedEvents) = 1
          /\ log[Len(log)] = CompletedEvents[1]
          /\ \A t \in Tasks : tpc[t] = "done"
    /\ Len(LogsOf(0)) = Len(StartEvents) + Len(CompletedEvents)

\* C9: a lookup has no outcome and no log event while it runs, and once it
\* has ended it has one outcome that never changes and exactly one log event,
\* at INFO for Success, WARNING for NoData, ERROR for DomainNotFound and
\* OtherError; the scan-start event is logged once, before any thread
\* starts, and the scan-completed event once, after every thread has ended.
LogEvents ==
    /\ [](OneEventPerLookup /\ ScanEvents)
    /\ [][\A t \in Tasks : outcome[t] # "None" => outcome'[t] = outcome[t]]_vars

\* a scan is complete in which one lookup found no data and the other failed
LogEventsWitness ==
    /\ pc = "done"
    /\ Len(threads) = 2
    /\ \E t \in Tasks : outcome[t] = "NoData"
    /\ \E t \in Tasks : outcome[t] \in {"DomainNotFound", "OtherError"}
    /\ Len(log) = 4

\* --------------------------------------------------------------- C10
\* C10: no thread calls the resolver more than once, and a lookup that has
\* failed has made its one call and its thread has terminated.
NoRetry ==
    \A t \in Tasks :
        /\ queries[t] <= 1
        /\ outcome[t] \in Failures => queries[t] = 1 /\ tpc[t] = "done"

\* both lookups failed in the resolver, and each made one call
NoRetryWitness ==
    /\ Len(threads) = 2
    /\ \A t \in Tasks : outcome[t] \in Failures /\ answers[t] = <<>> /\ queries[t] = 1
    /\ pc = "done"

\* --------------------------------------------------------------- C11
\* the four columns of a row of the report
Columns(row) ==
    [Host |-> row.Host, RecordType |-> row.RecordType,
     Result |-> row.Result, TimeTaken |-> row.TimeTaken]
\* a printed row without its colour codes
Uncoloured(c) ==
    [Host |-> c.Host[2], RecordType |-> c.RecordType[2],
     Result |-> c.Result[2], TimeTaken |-> c.TimeTaken[2]]

TableMatchesReport ==
    /\ Len(tables) <= 1
    /\ tables # <<>> =>
          /\ pc \in {"complete", "done"}
          /\ \A t \in Tasks : tpc[t] = "done"
          /\ Len(tables[1]) = Len(results_list)
          /\ \A r \in 1..Len(results_list) :
                Uncoloured(tables[1][r]) = Columns(results_list[r])
    /\ pc \in {"complete", "done"} => (tables # <<>> <=> results_list # <<>>)

\* C11: at most one table is printed, only after every thread has ended and
\* exactly when the final report is not empty; its rows are the rows of the
\* final report, as many and in the same order, and from the end of the drain
\* loop on the report never changes.
RenderOnce ==
    /\ []TableMatchesReport
    /\ [][Finalized => results_list' = results_list]_vars

\* a report of three rows has been printed as a table of three rows
RenderOnceWitness ==
    /\ pc = "done"
    /\ Len(results_list) = 3
    /\ Len(tables) = 1
    /\ Len(tables[1]) = 3

\* a scan whose lookups all failed has ended without a table
NoTableWitness ==
    /\ pc = "done"
    /\ Len(threads) = 2
    /\ results_list = <<>>
    /\ tables = <<>>

\* --------------------------------------------------------------- C12
\* every row put so far, in the queue or already in the report
RowsPut == results_list \o results

\* C12: every row carries the scanned domain as Host, the record type of the
\* list entry its thread was started for, and the formatted query time of
\* that thread's one resolver call, so that the rows of one lookup all carry
\* the same time.
RowFields ==
    /\ \A r \in 1..Len(RowsPut) :
          LET row == RowsPut[r]
          IN  /\ row.Host = domain
              /\ row.RecordType = record_types[row.task]
              /\ row.TimeTaken = Format4f(query_time[row.task])
    /\ \A r1, r2 \in 1..Len(RowsPut) :
          RowsPut[r1].task = RowsPut[r2].task
              => RowsPut[r1].TimeTaken = RowsPut[r2].TimeTaken

\* the final report holds two rows of one lookup and a row of another lookup
\* of another record type that took another time
RowFieldsWitness ==
    /\ pc = "done"
    /\ Len(results_list) = 3
    /\ query_time[1] # query_time[2]
    /\ record_types[1] # record_types[2]
    /\ \E r1, r2 \in 1..3 : r1 # r2 /\ results_list[r1].task = results_list[r2].task

\* --------------------------------------------------------------- C13
InFlight == {t \in Started : tpc[t] # "done"}

\* C13: while a configured entry has no thread yet, main() can start the next
\* thread whatever the earlier threads are doing, and main() joins no thread
\* before a thread has been started for every entry.
Unthrottled ==
    /\ (pc = "dispatch" /\ Len(threads) < Len(record_types)) => ENABLED StartThread
    /\ (pc = "join" \/ joined > 0) => Len(threads) = Len(record_types)
    /\ pc \in {"start", "dispatch"} => joined = 0

\* main() has started the last thread, still in the dispatch loop, while every
\* lookup is waiting for its resolver answer
AllInFlightWitness ==
    /\ pc = "dispatch"
    /\ Len(record_types) = MaxTypes
    /\ Len(threads) = Len(record_types)
    /\ joined = 0
    /\ \A t \in Started : tpc[t] = "resolve"
    /\ Cardinality(InFlight) = Len(record_types)

\* --------------------------------------------------------------- C14
\* the rows the thread has put so far, in the order of its answer
RowsPutBy(t) == SubSeq(OwnRows(t), 1, idx[t])
TaskOrder(rows) == [r \in 1..Len(rows) |-> rows[r].task]

\* C14: in the final report the rows of one lookup are the records the
\* thread put, in the order in which the resolver returned them.
PerLookupOrder ==
    Finalized => \A t \in Tasks : RowsOf(t) = RowsPutBy(t)

\* in the final report a row of the first lookup stands between the two rows
\* of the second lookup, which come in the order of the answer
PerLookupOrderWitness ==
    /\ pc = "done"
    /\ TaskOrder(results_list) = <<2, 1, 2>>
    /\ results_list[1].Result = Str(answers[2][1])
    /\ results_list[3].Result = Str(answers[2][2])

\* --------------------------------------------------------------- C15
RECURSIVE SumIdx(_)
SumIdx(S) ==
    IF S = {} THEN 0
    ELSE LET t == CHOOSE u \in S : TRUE IN idx[t] + SumIdx(S \ {t})

\* get() is called only on a queue that holds an item and whose mutex is free
GetNeverBlocks == pc = "get" => (results # <<>> /\ mutex = 0)

\* after the loop the queue is empty and the list holds one row per put
DrainedAll == Finalized => (results = <<>> /\ Len(results_list) = SumIdx(Tasks))

\* the rows put so far, list first and queue after it, only ever grow at the
\* tail, and not at all once main() is past the join loop
RowsOnlyAppended ==
    \/ RowsPut' = RowsPut
    \/ /\ pc \in {"dispatch", "join"}
       /\ Len(RowsPut') = Len(RowsPut) + 1
       /\ SubSeq(RowsPut', 1, Len(RowsPut)) = RowsPut

\* C15: the drain loop never calls get() on an empty queue, it ends, with the
\* queue empty, and the list then holds every row that was put, once each, in
\* the order in which the rows entered the queue.
DrainComplete ==
    /\ [](GetNeverBlocks /\ DrainedAll)
    /\ [][RowsOnlyAppended]_vars
    /\ (Draining ~> Finalized)

\* the loop has moved three rows of two lookups and left the queue empty
DrainCompleteWitness ==
    /\ pc = "render"
    /\ results = <<>>
    /\ Len(results_list) = 3
    /\ TaskOrder(results_list) \in {<<1, 2, 1>>, <<2, 1, 2>>}

====
